---- MODULE Spec2Model ----
(***************************************************************************)
(* Model of inhouse_bot/cogs/stats_cog.py: the StatsCog commands (rank,    *)
(* ranking, mmr, mmr_history) over the record store (PlayerRating, Game,   *)
(* GameParticipant rows) and the module-level pyplot figure.               *)
(*                                                                         *)
(* The store is reached through SQLAlchemy queries.  A query without an    *)
(* ORDER BY returns its rows in an order the store chooses, and an ORDER   *)
(* BY leaves the order of rows with equal keys to the store: both are      *)
(* modelled as a choice over every order the query admits.                 *)
(***************************************************************************)
EXTENDS Integers, Sequences, FiniteSets, TLC

VARIABLES
    ratings,       \* PlayerRating rows: <<player, role>> -> mmr
    games,         \* Game rows, by id (1..Len): [date, winner]
    participants,  \* GameParticipant rows: [game, player, role, team, mmr]
    now,           \* the clock read by dateparser.parse('now')
    figure,        \* lines held by pyplot's current figure (module state)
    call,          \* the command handled by the last step, with its arguments
    reply          \* what that command sent, or how it ended

vars == <<ratings, games, participants, now, figure, call, reply>>

----------------------------------------------------------------------------
(* Bounds of the model *)

\* players that record games and call commands in Spec
NumPlayers == 2
\* Game rows recorded in Spec
MaxGames == 2
\* rating values 1..MaxMmr written in Spec
MaxMmr == 2
\* PlayerRating rows held in Spec
MaxRatings == 2
\* lines the figure may hold before a further mmr_history call is left out
MaxLines == 2
\* rating rows of the ranked role in SpecBoard (above the 20-row cut)
MaxBoard == 22
\* rating rows of the other role in SpecBoard
MaxOther == 2

(* Program constants *)

\* .limit(20)
TopN == 20
\* if score < 80
MinScore == 80
\* dateparser.parse('one month ago'), in clock ticks
OneMonth == 2

Roles == {"top", "mid"}
Active == 1..NumPlayers
Mmrs == 1..MaxMmr
\* an optional argument is <<>> when absent and <<value>> when given
None == <<>>

----------------------------------------------------------------------------
(* Sequences and text *)

\* every ordering of the finite set S, as sequences without repetition
Perms(S) ==
    {s \in [1..Cardinality(S) -> S] : \A i, j \in DOMAIN s : s[i] = s[j] => i = j}

\* text is a sequence of code points; str comparison is lexicographic on them
StrLess(a, b) ==
    \E k \in 1..(Len(b)) :
        /\ \A i \in 1..(k - 1) : i <= Len(a) /\ a[i] = b[i]
        /\ \/ k = Len(a) + 1
           \/ k <= Len(a) /\ a[k] < b[k]

RECURSIVE Digits(_)
\* str(n), n >= 0
Digits(n) == IF n < 10 THEN <<48 + n>> ELSE Digits(n \div 10) \o <<48 + (n % 10)>>

\* inflect: engine.ordinal(n) for a number: "1st", "2nd", "3rd", "4th", "11th"
Ordinal(n) ==
    LET th == <<116, 104>>
        suffix == IF (n % 100) \in {11, 12, 13} THEN th
                  ELSE CASE n % 10 = 1 -> <<115, 116>>
                         [] n % 10 = 2 -> <<110, 100>>
                         [] n % 10 = 3 -> <<114, 100>>
                         [] OTHER -> th
    IN Digits(n) \o suffix

\* str.capitalize() on a role name
Capitalize(r) == CASE r = "top" -> "Top" [] r = "mid" -> "Mid" [] OTHER -> r

\* f'{x:.2f}' of a whole rating: integer part and two decimals
Fmt2(x) == <<x, 0>>

\* f'{wins / games * 100:.2f}%': hundredths of a percent, rounded to nearest
Winrate(wins, n) == (wins * 20000 + n) \div (2 * n)

\* sorted(s, key=...): Python's sort is stable; less[i][j] tells whether the
\* key of s[i] is smaller than the key of s[j]
StableSort(s, less) ==
    LET idx == CHOOSE f \in Perms(DOMAIN s) :
                   \A i, j \in DOMAIN s :
                       i < j => /\ ~less[f[j]][f[i]]
                                /\ (~less[f[i]][f[j]] => f[i] < f[j])
    IN [i \in DOMAIN s |-> s[idx[i]]]

----------------------------------------------------------------------------
(* The record store and its writers (recording of games and the rating     *)
(* update are other modules of the repository)                             *)

Idle == [cmd |-> "none"]
NoReply == [kind |-> "none"]

\* player.ratings: the roles in which player p has a PlayerRating row
RatedRoles(p) == {r \in Roles : <<p, r>> \in DOMAIN ratings}

\* a finished game is stored with its participant row in one transaction,
\* dated by the clock, which has moved on when the next step is taken
RecordGame(p, role, team, winner, m) ==
    /\ Len(games) < MaxGames
    /\ games' = Append(games, [date |-> now, winner |-> winner])
    /\ participants' = Append(participants,
           [game |-> Len(games) + 1, player |-> p, role |-> role,
            team |-> team, mmr |-> m])
    /\ now' = now + 1
    /\ call' = Idle
    /\ reply' = NoReply
    /\ UNCHANGED <<ratings, figure>>

\* the rating update creates the player's row for the role, or overwrites it
UpdateRating(p, role, m) ==
    /\ IF <<p, role>> \in DOMAIN ratings
       THEN ratings[<<p, role>>] # m
       ELSE Cardinality(DOMAIN ratings) < MaxRatings
    /\ ratings' = [k \in DOMAIN ratings \cup {<<p, role>>} |->
                      IF k = <<p, role>> THEN m ELSE ratings[k]]
    /\ call' = Idle
    /\ reply' = NoReply
    /\ UNCHANGED <<games, participants, now, figure>>

----------------------------------------------------------------------------
(* mmr_history *)

\* date_start of mmr_history: 'one month ago' when the argument is absent
HistoryBound(date_start) == IF date_start = None THEN now - OneMonth ELSE date_start[1]

\* HistoryRows with the bound taken inclusive (Game.date >= date_start)
HistoryRowsFromBound(p, bound) ==
    {i \in DOMAIN participants :
        /\ participants[i].player = p
        /\ games[participants[i].game].date >= bound}

\* query(Game, GameParticipant).join(GameParticipant)
\*   .filter(player_id == player.discord_id).filter(Game.date > date_start):
\* the joined rows, named by their participant row
HistoryRows(p, bound) ==
    {i \in DOMAIN participants :
        /\ participants[i].player = p
        /\ games[participants[i].game].date > bound}

\* mmr_history[role]['dates'].append(d); mmr_history[role]['mmr'].append(m)
\* on a defaultdict, which keeps its keys in order of first insertion
AddPoint(h, role, d, m) ==
    IF \E i \in DOMAIN h : h[i].role = role
    THEN [i \in DOMAIN h |->
             IF h[i].role = role
             THEN [h[i] EXCEPT !.dates = Append(@, d), !.mmr = Append(@, m)]
             ELSE h[i]]
    ELSE Append(h, [role |-> role, dates |-> <<d>>, mmr |-> <<m>>])

RECURSIVE Collect(_, _)
\* the first loop over the first n joined rows, in the order the store returns them
Collect(rows, n) ==
    IF n = 0 THEN <<>>
    ELSE LET part == participants[rows[n]]
         IN AddPoint(Collect(rows, n - 1), part.role, games[part.game].date, part.mmr)

\* WithCurrent closing the series with the last snapshot, not the current rating
WithLastSnapshot(p, e) ==
    [role |-> e.role,
     dates |-> Append(e.dates, now),
     mmr |-> Append(e.mmr, e.mmr[Len(e.mmr)])]

\* the second loop's body for one role: the point for the current rating
WithCurrent(p, e) ==
    [role |-> e.role,
     dates |-> Append(e.dates, now),
     mmr |-> Append(e.mmr, ratings[<<p, e.role>>])]

\* index of the first role whose player.ratings[role] raises KeyError
FirstMissing(p, h) ==
    IF \E i \in DOMAIN h : h[i].role \notin RatedRoles(p)
    THEN CHOOSE i \in DOMAIN h :
             /\ h[i].role \notin RatedRoles(p)
             /\ \A j \in 1..(i - 1) : h[j].role \in RatedRoles(p)
    ELSE Len(h) + 1

\* plt.plot(dates, mmr) for the roles handled before the loop ends or raises
Plotted(p, h) ==
    [i \in 1..(FirstMissing(p, h) - 1) |->
        [dates |-> WithCurrent(p, h[i]).dates, mmr |-> WithCurrent(p, h[i]).mmr]]

\* plt.plot adds to the current figure of the module-level pyplot state
PlotOn(fig, lines) == fig \o lines

MmrHistory(p, date_start) ==
    \E rows \in Perms(HistoryRows(p, HistoryBound(date_start))) :
        LET h == Collect(rows, Len(rows))
            lines == Plotted(p, h)
        IN /\ Len(figure) + Len(lines) <= MaxLines
           /\ figure' = PlotOn(figure, lines)
           /\ call' = [cmd |-> "mmr_history", player |-> p, date_start |-> date_start]
           /\ reply' = IF FirstMissing(p, h) <= Len(h)
                       THEN [kind |-> "KeyError"]
                       ELSE [kind |-> "chart",
                             series |-> [i \in DOMAIN h |-> WithCurrent(p, h[i])],
                             lines |-> figure',
                             legend |-> [i \in DOMAIN h |-> h[i].role],
                             title |-> p]
           /\ UNCHANGED <<ratings, games, participants, now>>

----------------------------------------------------------------------------
(* mmr *)

\* player.get_roles_stats(session, date_start): per role, the games and wins of
\* the player's participant rows after date_start; no bound when it is absent
StatsRows(p, date_start, role) ==
    {i \in DOMAIN participants :
        /\ participants[i].player = p
        /\ participants[i].role = role
        /\ date_start # None => games[participants[i].game].date > date_start[1]}

get_roles_stats(p, date_start) ==
    [role \in {r \in Roles : StatsRows(p, date_start, r) # {}} |->
        [games |-> Cardinality(StatsRows(p, date_start, role)),
         wins |-> Cardinality({i \in StatsRows(p, date_start, role) :
                      participants[i].team = games[participants[i].game].winner})]]

\* one row of the stats table
StatsRow(p, stats, role) ==
    [role |-> Capitalize(role),
     mmr |-> Fmt2(ratings[<<p, role>>]),
     games |-> stats[role].games,
     winrate |-> Winrate(stats[role].wins, stats[role].games)]

\* key=lambda x: -x[2]
MoreGames(x, y) == x.games > y.games

\* table = sorted(table, key=lambda x: -x[2])
SortStatsTable(table) ==
    StableSort(table, [i \in DOMAIN table |->
                          [j \in DOMAIN table |-> MoreGames(table[i], table[j])]])

Mmr(p, date_start) ==
    LET stats == get_roles_stats(p, date_start)
    IN \E order \in Perms(DOMAIN stats) :
        /\ call' = [cmd |-> "mmr", player |-> p, date_start |-> date_start]
        /\ reply' = IF \E r \in DOMAIN stats : r \notin RatedRoles(p)
                    THEN [kind |-> "KeyError"]
                    ELSE [kind |-> "table",
                          header |-> <<"Role", "MMR", "Games", "Winrate">>,
                          rows |-> SortStatsTable([i \in DOMAIN order |->
                                                      StatsRow(p, stats, order[i])])]
        /\ UNCHANGED <<ratings, games, participants, now, figure>>

----------------------------------------------------------------------------
(* ranking *)

\* query(PlayerRating).filter(PlayerRating.role == clean_role)
RoleRows(role) == {k \in DOMAIN ratings : k[2] = role}

\* First under order_by(PlayerRating.mmr), the minus sign lost
FirstAscending(S) == {k \in S : \A q \in S : ratings[k] <= ratings[q]}

\* the rows no row of S precedes under order_by(- PlayerRating.mmr)
First(S) == {k \in S : \A q \in S : ratings[q] <= ratings[k]}

RECURSIVE TopSeqs(_, _)
\* .order_by(- PlayerRating.mmr).limit(n) over the rows S: every sequence the
\* store may return; rows of equal mmr come in the order the store chooses
TopSeqs(S, n) ==
    IF n = 0 \/ S = {} THEN {<<>>}
    ELSE UNION {{<<k>> \o rest : rest \in TopSeqs(S \ {k}, n - 1)} : k \in First(S)}

\* rating.get_games(session): the player's participant rows in the rating's role
get_games(k) ==
    Cardinality({i \in DOMAIN participants :
        participants[i].player = k[1] /\ participants[i].role = k[2]})

\* the table row of the rating at position rank of enumerate(role_ranking)
RankingRow(rank, k) ==
    [rank |-> Ordinal(rank + 1),
     name |-> k[1],
     mmr |-> Fmt2(ratings[k]),
     games |-> get_games(k)]

\* what the handler has sent when the score check is behind it
AfterScoreCheck(score) ==
    IF score < MinScore THEN <<"role_not_understood">> ELSE <<>>

\* scores process.extractOne may give the best-matching role
Scores == {0, MinScore - 1, MinScore, 100}

\* clean_role, score: the result of process.extractOne(role, roles_list)
Ranking(clean_role, score) ==
    \E role_ranking \in TopSeqs(RoleRows(clean_role), TopN) :
        /\ call' = [cmd |-> "ranking", role |-> clean_role, score |-> score]
        /\ reply' = [kind |-> "table",
                     before |-> AfterScoreCheck(score),
                     header |-> <<"Rank", "Name", "MMR", "Games">>,
                     rows |-> [i \in DOMAIN role_ranking |->
                                  RankingRow(i - 1, role_ranking[i])]]
        /\ UNCHANGED <<ratings, games, participants, now, figure>>

----------------------------------------------------------------------------
(* rank *)

\* rating.get_rank(session): the 1-based place of the rating among the ratings
\* of its role, by descending mmr
get_rank(k) == 1 + Cardinality({q \in RoleRows(k[2]) : ratings[q] > ratings[k]})

\* key=lambda x: x[1], the ordinal text
RankKeyLess(x, y) == StrLess(x.rank, y.rank)

\* table = sorted(table, key=lambda x: x[1])
SortRankTable(table) ==
    StableSort(table, [i \in DOMAIN table |->
                          [j \in DOMAIN table |-> RankKeyLess(table[i], table[j])]])

Rank(p) ==
    \E order \in Perms(RatedRoles(p)) :
        /\ call' = [cmd |-> "rank", player |-> p]
        /\ reply' = [kind |-> "table",
                     header |-> <<"Role", "Rank">>,
                     rows |-> SortRankTable([i \in DOMAIN order |->
                                  [role |-> Capitalize(order[i]),
                                   rank |-> Ordinal(get_rank(<<p, order[i]>>))]])]
        /\ UNCHANGED <<ratings, games, participants, now, figure>>

----------------------------------------------------------------------------
(* Specifications *)

\* date_start arguments: absent, or a date dateparser resolves the text to
DateArgs == {None} \cup {<<d>> : d \in 0..(MaxGames - 1)}

\* the bot starts on an empty store with nothing plotted
Init ==
    /\ ratings = <<>>
    /\ games = <<>>
    /\ participants = <<>>
    /\ now = 1
    /\ figure = <<>>
    /\ call = Idle
    /\ reply = NoReply

Next ==
    \/ \E p \in Active, role \in Roles, m \in Mmrs :
           \* the player sits on the blue side; the sides win in turn
           RecordGame(p, role, "blue", IF Len(games) % 2 = 0 THEN "blue" ELSE "red", m)
    \/ \E p \in Active, role \in Roles, m \in Mmrs : UpdateRating(p, role, m)
    \/ \E p \in Active, d \in DateArgs : MmrHistory(p, d)
    \/ \E p \in Active, d \in DateArgs : Mmr(p, d)

Spec == Init /\ [][Next]_vars

\* rating values of the ranked role in a leaderboard-sized store
BoardPatterns == {"ascending", "descending", "tied"}

BoardMmr(pattern, p) ==
    CASE pattern = "ascending" -> p
      [] pattern = "descending" -> MaxBoard + 1 - p
      [] OTHER -> IF p \in {2, 3, 4} THEN 2 ELSE p

\* a store grown to n rating rows for "top" and m for "mid"
BoardRatings(n, m, pattern) ==
    [k \in {<<p, "top">> : p \in 1..n} \cup {<<p, "mid">> : p \in 1..m} |->
        IF k[2] = "top" THEN BoardMmr(pattern, k[1]) ELSE MaxOther + 1 - k[1]]

InitBoard ==
    /\ \E n \in 0..MaxBoard, m \in 0..MaxOther, pattern \in BoardPatterns :
           ratings = BoardRatings(n, m, pattern)
    /\ games = <<[date |-> 1, winner |-> "blue"]>>
    /\ participants = <<[game |-> 1, player |-> 1, role |-> "top",
                         team |-> "blue", mmr |-> 1]>>
    /\ now = 2
    /\ figure = <<>>
    /\ call = Idle
    /\ reply = NoReply

NextBoard ==
    \/ \E role \in Roles, score \in Scores : Ranking(role, score)
    \/ \E p \in Active : Rank(p)

SpecBoard == InitBoard /\ [][NextBoard]_vars

----------------------------------------------------------------------------
(* Properties of ranking, checked under SpecBoard *)

Min(a, b) == IF a < b THEN a ELSE b

\* the rating row behind row i of a ranking table
RowKey(i) == <<reply.rows[i].name, call.role>>

\* C1: the ranking table holds min(20, rows of the role) entries, each a
\* distinct rating row of the role, in non-increasing order of rating, no
\* omitted row of the role rated strictly higher than a listed one, and the
\* entry at position i (from 0) ranked i + 1.
RankingReturnsTopN ==
    call.cmd = "ranking" =>
        LET rows == reply.rows
            S == {k \in DOMAIN ratings : k[2] = call.role}
        IN /\ Len(rows) = Min(20, Cardinality(S))
           /\ \A i \in DOMAIN rows :
                  /\ RowKey(i) \in S
                  /\ rows[i].mmr = Fmt2(ratings[RowKey(i)])
                  /\ rows[i].rank = Ordinal(i)
           /\ \A i, j \in DOMAIN rows :
                  /\ i # j => rows[i].name # rows[j].name
                  /\ i < j => ratings[RowKey(i)] >= ratings[RowKey(j)]
           /\ \A k \in S \ {RowKey(i) : i \in DOMAIN rows} :
                  \A i \in DOMAIN rows : ratings[k] <= ratings[RowKey(i)]

\* a ranking of a role with more than 20 rating rows, cut inside a tie
RankingCutReached ==
    /\ call.cmd = "ranking"
    /\ Cardinality(RoleRows(call.role)) > TopN
    /\ Len(reply.rows) = TopN
    /\ \E k \in RoleRows(call.role) \ {RowKey(i) : i \in DOMAIN reply.rows} :
           ratings[k] = ratings[RowKey(TopN)]

\* C2: two rankings of the same role on an unchanged store list the same
\* players in the same order, ties included.
RankingTiesDeterministic ==
    [][(/\ call.cmd = "ranking"
        /\ call'.cmd = "ranking"
        /\ call'.role = call.role
        /\ ratings' = ratings)
       => [i \in DOMAIN reply'.rows |-> reply'.rows[i].name]
              = [i \in DOMAIN reply.rows |-> reply.rows[i].name]]_vars

\* C8: a role matched with a score below 80 is reported as not understood and
\* no leaderboard table is sent for it.
RankingStopsBelowMinScore ==
    (call.cmd = "ranking" /\ call.score < 80) =>
        /\ reply.before = <<"role_not_understood">>
        /\ reply.kind # "table"

RECURSIVE OrdinalValue(_, _)
\* the number an ordinal text starts with, read from its first n characters
OrdinalValue(t, n) ==
    IF n = 0 THEN 0
    ELSE IF t[n] \in 48..57 THEN 10 * OrdinalValue(t, n - 1) + (t[n] - 48)
    ELSE OrdinalValue(t, n - 1)

\* C9: the rank table has one row per rated role of the player, and its rows
\* are in non-decreasing order of the numeric rank.
RankRowsSortedByRank ==
    call.cmd = "rank" =>
        /\ Len(reply.rows) = Cardinality({r \in Roles : <<call.player, r>> \in DOMAIN ratings})
        /\ \A i, j \in DOMAIN reply.rows :
               i < j => OrdinalValue(reply.rows[i].rank, Len(reply.rows[i].rank))
                            <= OrdinalValue(reply.rows[j].rank, Len(reply.rows[j].rank))

----------------------------------------------------------------------------
(* Properties of mmr_history and mmr, checked under Spec *)

\* the time bound of the mmr_history call just handled
CallBound == IF call.date_start = <<>> THEN now - 2 ELSE call.date_start[1]

\* the participant rows of the calling player dated strictly after the bound
Qualifying ==
    {i \in DOMAIN participants :
        /\ participants[i].player = call.player
        /\ games[participants[i].game].date > CallBound}

QualifyingIn(role) == {i \in Qualifying : participants[i].role = role}

HistoryDone == call.cmd = "mmr_history" /\ reply.kind = "chart"

\* C3: every series of a rating-history result has one point more than the
\* player has qualifying participant rows of its role; the last point is
\* stamped now and holds the player's current rating of the role; dates and
\* ratings have the same length.
HistoryEndsWithCurrentRating ==
    HistoryDone =>
        \A i \in DOMAIN reply.series :
            LET e == reply.series[i]
                n == Cardinality(QualifyingIn(e.role))
            IN /\ Len(e.dates) = n + 1
               /\ Len(e.mmr) = n + 1
               /\ e.dates[n + 1] = now
               /\ e.mmr[n + 1] = ratings[<<call.player, e.role>>]

\* a result with a series whose current rating differs from the last snapshot
HistoryCurrentDiffers ==
    /\ HistoryDone
    /\ \E i \in DOMAIN reply.series :
           LET e == reply.series[i]
           IN /\ Len(e.mmr) >= 2
              /\ e.mmr[Len(e.mmr)] # e.mmr[Len(e.mmr) - 1]

\* the historical points of a result: series i, position j before the last
HistoryPoints ==
    UNION {{<<i, j>> : j \in 1..(Len(reply.series[i].dates) - 1)} :
              i \in DOMAIN reply.series}

\* C5: the historical points of a rating-history result correspond one-to-one
\* to the calling player's participant rows dated strictly after the bound,
\* each row giving (game date, rating snapshot) in the series of its role.
HistoryPointsMatchRows ==
    HistoryDone =>
        /\ \A i, j \in DOMAIN reply.series :
               reply.series[i].role = reply.series[j].role => i = j
        /\ \E f \in [Qualifying -> HistoryPoints] :
               /\ \A a, b \in Qualifying : f[a] = f[b] => a = b
               /\ {f[a] : a \in Qualifying} = HistoryPoints
               /\ \A a \in Qualifying :
                      LET e == reply.series[f[a][1]]
                      IN /\ e.role = participants[a].role
                         /\ e.dates[f[a][2]] = games[participants[a].game].date
                         /\ e.mmr[f[a][2]] = participants[a].mmr

\* a result that keeps a row of the caller and leaves out the caller's row
\* dated exactly at the bound
HistoryFilterReached ==
    /\ HistoryDone
    /\ Qualifying # {}
    /\ \E i \in DOMAIN participants :
           /\ participants[i].player = call.player
           /\ games[participants[i].game].date = CallBound

\* C4: a role with a rating row and no qualifying participant row is in the
\* result as a one-point series; a role with neither is absent.
HistoryKeepsRatedRoles ==
    HistoryDone =>
        \A r \in Roles :
            /\ (<<call.player, r>> \in DOMAIN ratings /\ QualifyingIn(r) = {}) =>
                   \E i \in DOMAIN reply.series :
                       reply.series[i].role = r /\ Len(reply.series[i].dates) = 1
            /\ (/\ <<call.player, r>> \notin DOMAIN ratings
                /\ \A i \in DOMAIN participants :
                       ~(participants[i].player = call.player /\ participants[i].role = r)) =>
                   \A i \in DOMAIN reply.series : reply.series[i].role # r

\* C6: in every series of a rating-history result the timestamps never
\* decrease, the final point included.
HistoryTimestampsAscending ==
    HistoryDone =>
        \A i \in DOMAIN reply.series :
            \A j, k \in DOMAIN reply.series[i].dates :
                j < k => reply.series[i].dates[j] <= reply.series[i].dates[k]

\* C7: the chart of a rating-history call holds the series of this call and
\* nothing else, one line per legend entry.
HistoryChartHoldsOwnSeries ==
    HistoryDone =>
        /\ Len(reply.lines) = Len(reply.legend)
        /\ reply.lines = [i \in DOMAIN reply.series |->
                             [dates |-> reply.series[i].dates, mmr |-> reply.series[i].mmr]]

\* C10: in every store the writers reach, neither mmr nor mmr_history fails
\* on the lookup of the player's rating row of a role.
RatingLookupNeverFails ==
    call.cmd \in {"mmr", "mmr_history"} => reply.kind # "KeyError"

====
